---- MODULE Spec2Model ----
(***************************************************************************)
(* Two utility scripts of the repository.                                  *)
(*                                                                         *)
(*  Script A  src/hetumind/hetumind-nodes/fix_node_definitions.py          *)
(*            main() walks the .rs files and calls                         *)
(*            fix_node_definition_file on each; the function reads the     *)
(*            file, applies rewrite rules (1)-(8) to the text and writes   *)
(*            the text back when it changed.                               *)
(*  Script B  src/scripts/py-tools/b64_json-2-image.py                     *)
(*            base64_json_to_image parses a JSON text, takes one field,    *)
(*            strips a data-URI prefix, Base64-decodes and writes a file.  *)
(*                                                                         *)
(* A text is a sequence of one-character strings, so that the regular      *)
(* expressions and the scanning loops are modelled character by character. *)
(***************************************************************************)
EXTENDS Integers, Sequences, FiniteSets, TLC

VARIABLES
    files,             \* Script A: the .rs files found by os.walk: file index -> text on disk
    perm,              \* Script A: file index -> "rw" | "noread" | "nowrite" (what open() allows)
    run,               \* Script A: which execution of the script this is (1 = first)
    mpc,               \* Script A: main's position: "loop" | "done"
    idx,               \* Script A: index in rust_files of the file main is at
    fixed_count,       \* Script A: main's fixed_count
    pc,                \* Script A: fix_node_definition_file's position: "idle" | "r1".."r8" | "write"
    content,           \* Script A: fix_node_definition_file's local content
    original_content,  \* Script A: fix_node_definition_file's local original_content
    outcome,           \* Script A: file index -> sequence of this run's call outcomes ("True"|"False"|"raised")
    wopens,            \* Script A: file index -> number of times this run opened the file for writing
    summary,           \* Script A: the count the final print shows (-1 before it is printed)
    b_pc,              \* Script B: "idle" | "ready" | "done"
    b_json,            \* Script B: argument b64_json_string
    b_key,             \* Script B: argument data_key
    b_writable,        \* Script B: whether output_path can be opened for writing
    b_file,            \* Script B: the bytes at output_path (<<"absent">> when there is no file)
    b_ret,             \* Script B: the returned value: "none" | "True" | "False"
    b_err              \* Script B: the except clause that ran: "none" | "JSONDecodeError" |
                       \*   "KeyError" | "binascii.Error" | "IOError" | "Exception"

varsA == <<files, perm, run, mpc, idx, fixed_count, pc, content, original_content,
           outcome, wopens, summary>>
varsB == <<b_pc, b_json, b_key, b_writable, b_file, b_ret, b_err>>
vars == <<varsA, varsB>>

-----------------------------------------------------------------------------
(* Text helpers: Python slicing, str.strip(), the `in` substring test.     *)

\* Python's \s and the characters str.strip() removes, within the model's alphabet.
WS == {" ", "\t", "\n", "\r"}

\* content[a:b] of Python on 1-based positions: characters a .. b-1.
Slice(s, a, b) == SubSeq(s, a, b - 1)

\* content[a:] of Python: characters a .. end.
From(s, a) == SubSeq(s, a, Len(s))

\* Whether lit occurs in s starting at position i.
StartsAt(s, i, lit) ==
    /\ i >= 1
    /\ i + Len(lit) - 1 <= Len(s)
    /\ SubSeq(s, i, i + Len(lit) - 1) = lit

\* Python's `lit in s`.
Contains(s, lit) == \E i \in 1..(Len(s) + 1) : StartsAt(s, i, lit)

\* The smallest element of a non-empty set of positions.
Min(S) == CHOOSE x \in S : \A y \in S : x <= y

Max(S) == CHOOSE x \in S : \A y \in S : x >= y

\* str.strip(): the text from its first to its last non-whitespace character.
Strip(s) ==
    LET keep == {i \in 1..Len(s) : s[i] \notin WS}
    IN IF keep = {} THEN <<>> ELSE SubSeq(s, Min(keep), Max(keep))

RECURSIVE Flatten(_)
Flatten(ss) == IF ss = <<>> THEN <<>> ELSE Head(ss) \o Flatten(Tail(ss))

-----------------------------------------------------------------------------
(* The regular expressions of both scripts.  A pattern is a sequence of    *)
(* elements: a literal, or a run of characters of a class (\s, \w, or a    *)
(* negated class [^c]) of at least `min` characters.  In every pattern of  *)
(* the scripts the element after a run starts with a character outside the *)
(* run's class, so the greedy run up to the first character outside the    *)
(* class is the only way the pattern can match: no backtracking happens.   *)

Lit(chars) == [k |-> "lit", s |-> chars, set |-> {}, neg |-> FALSE, min |-> 0]
Ws(n) == [k |-> "run", s |-> <<>>, set |-> WS, neg |-> FALSE, min |-> n]
NotPlus(c) == [k |-> "run", s |-> <<>>, set |-> {c}, neg |-> TRUE, min |-> 1]

InClass(e, ch) == IF e.neg THEN ch \notin e.set ELSE ch \in e.set

\* The first position at or after i whose character is outside e's class
\* (Len(s) + 1 when the run reaches the end of the text).
RunEnd(e, s, i) ==
    Min({j \in i..(Len(s) + 1) : j = Len(s) + 1 \/ ~InClass(e, s[j])})

\* Position after element e matched at i, 0 when it does not match there.
ElemEnd(e, s, i) ==
    IF e.k = "lit"
    THEN IF StartsAt(s, i, e.s) THEN i + Len(e.s) ELSE 0
    ELSE LET j == RunEnd(e, s, i) IN IF j - i >= e.min THEN j ELSE 0

\* The positions after each element of pat matched from i on: <<>> when pat does
\* not match at i.  The last entry is the match's end; groups are read off the
\* entries around their element.
RECURSIVE MatchEnds(_, _, _, _, _)
MatchEnds(pat, s, i, n, acc) ==
    IF n > Len(pat) THEN acc
    ELSE LET j == ElemEnd(pat[n], s, i)
         IN IF j = 0 THEN <<>> ELSE MatchEnds(pat, s, j, n + 1, Append(acc, j))

MatchAt(pat, s, i) == MatchEnds(pat, s, i, 1, <<>>)

\* The regex search: the leftmost position at or after i where pat matches,
\* 0 when there is none.
NextStart(pat, s, i) ==
    LET found == {j \in i..Len(s) : MatchAt(pat, s, j) # <<>>}
    IN IF found = {} THEN 0 ELSE Min(found)

\* re.finditer: the leftmost non-overlapping matches, each as
\* [start, ends]; the search resumes at the end of a match.
RECURSIVE FindIter(_, _, _)
FindIter(pat, s, i) ==
    LET j == NextStart(pat, s, i)
    IN IF j = 0 THEN <<>>
       ELSE LET m == MatchAt(pat, s, j)
            IN <<[start |-> j, ends |-> m]>> \o FindIter(pat, s, m[Len(m)])

MatchEnd(m) == m.ends[Len(m.ends)]

\* Group of a match: the text matched by element n of the pattern.
Group(s, m, n) ==
    Slice(s, IF n = 1 THEN m.start ELSE m.ends[n - 1], m.ends[n])

-----------------------------------------------------------------------------
(* Script A: the literals of fix_node_definition_file.                     *)

L_version == <<".", "v", "e", "r", "s", "i", "o", "n", "(">>
L_inputs == <<".", "i", "n", "p", "u", "t", "s", "(", "[">>
L_outputs == <<".", "o", "u", "t", "p", "u", "t", "s", "(", "[">>
L_properties == <<".", "p", "r", "o", "p", "e", "r", "t", "i", "e", "s", "(", "[">>
L_add_input == <<".", "a", "d", "d", "_", "i", "n", "p", "u", "t", "(">>
L_add_output == <<".", "a", "d", "d", "_", "o", "u", "t", "p", "u", "t", "(">>
L_add_property == <<".", "a", "d", "d", "_", "p", "r", "o", "p", "e", "r", "t", "y", "(">>
L_kind_builder == <<"N", "o", "d", "e", "P", "r", "o", "p", "e", "r", "t", "y", "K", "i", "n", "d", "O", "p", "t", "i", "o", "n", "s", ":", ":", "b", "u", "i", "l", "d", "e", "r", "(", ")">>
L_builder == <<"N", "o", "d", "e", "P", "r", "o", "p", "e", "r", "t", "y", ":", ":", "b", "u", "i", "l", "d", "e", "r", "(", ")">>
L_build == <<".", "b", "u", "i", "l", "d", "(", ")">>
L_let == <<"l", "e", "t">>
L_definition == <<"d", "e", "f", "i", "n", "i", "t", "i", "o", "n">>
L_base_q == <<"b", "a", "s", "e", "?">>
L_let_plain == <<"l", "e", "t", " ", "d", "e", "f", "i", "n", "i", "t", "i", "o", "n", " ", "=", " ", "b", "a", "s", "e", ";">>
L_new == <<"N", "o", "d", "e", "D", "e", "f", "i", "n", "i", "t", "i", "o", "n", ":", ":", "n", "e", "w", "(">>
L_quote_sep == <<"\"", ",", " ", "\"">>
L_version_arg == <<",", " ", "V", "e", "r", "s", "i", "o", "n", ":", ":", "n", "e", "w", "(", "1", ",", " ", "0", ",", " ", "0", ")", ")">>

\* content[:start] + new + content[end:]   (start, end: 1-based, end exclusive)
ReplaceAt(s, start, end, new) == Slice(s, 1, start) \o new \o From(s, end)

\* Replace match k of ms by repl[k], for k from the last match down to the first
\* (re.sub, and the reversed(...) loops of rules 4, 6 and 8: the matches do not
\* overlap, so an edit leaves the positions of the earlier matches as they were).
RECURSIVE ReplaceMatches(_, _, _, _)
ReplaceMatches(s, ms, repl, k) ==
    IF k = 0 THEN s
    ELSE ReplaceMatches(ReplaceAt(s, ms[k].start, MatchEnd(ms[k]), repl[k]), ms, repl, k - 1)

\* r'\.version\(([^)]+)\)'
P_version == <<Lit(L_version), NotPlus(")"), Lit(<<")">>)>>

\* Rule 1: re.sub(r'\.version\(([^)]+)\)', r'', content)
Rule1(c) ==
    LET ms == FindIter(P_version, c, 1)
    IN ReplaceMatches(c, ms, [k \in 1..Len(ms) |-> <<>>], Len(ms))

\* r'\.inputs\(\[([^\]]+)\]\)' and r'\.outputs\(\[([^\]]+)\]\)'
P_inputs == <<Lit(L_inputs), NotPlus("]"), Lit(<<"]", ")">>)>>
P_outputs == <<Lit(L_outputs), NotPlus("]"), Lit(<<"]", ")">>)>>

\* lambda m: f'.add_input({m.group(1).strip()})'
AddCall(name, c, m) == name \o Strip(Group(c, m, 2)) \o <<")">>

\* Rule 2: re.sub(r'\.inputs\(\[([^\]]+)\]\)', lambda m: f'.add_input({m.group(1).strip()})', content)
Rule2(c) ==
    LET ms == FindIter(P_inputs, c, 1)
    IN ReplaceMatches(c, ms, [k \in 1..Len(ms) |-> AddCall(L_add_input, c, ms[k])], Len(ms))

\* Rule 3: the same for .outputs([...]) and .add_output(...)
Rule3(c) ==
    LET ms == FindIter(P_outputs, c, 1)
    IN ReplaceMatches(c, ms, [k \in 1..Len(ms) |-> AddCall(L_add_output, c, ms[k])], Len(ms))

\* r'let\s+definition\s*=\s*base\?\s*;'
P_base == <<Lit(L_let), Ws(1), Lit(L_definition), Ws(0), Lit(<<"=">>), Ws(0),
            Lit(L_base_q), Ws(0), Lit(<<";">>)>>

\* Rule 7: re.sub(r'let\s+definition\s*=\s*base\?\s*;', 'let definition = base;', content)
Rule7(c) ==
    LET ms == FindIter(P_base, c, 1)
    IN ReplaceMatches(c, ms, [k \in 1..Len(ms) |-> L_let_plain], Len(ms))

\* r'NodeDefinition::new\(\s*"([^"]+)"\s*,\s*"([^"]+)"\s*\)'
P_new == <<Lit(L_new), Ws(0), Lit(<<"\"">>), NotPlus("\""), Lit(<<"\"">>), Ws(0),
           Lit(<<",">>), Ws(0), Lit(<<"\"">>), NotPlus("\""), Lit(<<"\"">>), Ws(0),
           Lit(<<")">>)>>

\* f'NodeDefinition::new("{node_type}", "{display_name}", Version::new(1, 0, 0))'
NewCall(c, m) ==
    L_new \o <<"\"">> \o Group(c, m, 4) \o L_quote_sep \o Group(c, m, 10)
          \o <<"\"">> \o L_version_arg

\* Rule 8: every two-argument NodeDefinition::new("..", "..") gets the version argument.
Rule8(c) ==
    LET ms == FindIter(P_new, c, 1)
    IN ReplaceMatches(c, ms, [k \in 1..Len(ms) |-> NewCall(c, ms[k])], Len(ms))

-----------------------------------------------------------------------------
(* Rule 4: .properties([ ... ]) by bracket matching and a depth-aware split *)

\* properties_pattern = r'\.properties\(\['
P_properties == <<Lit(L_properties)>>

\* How many of the characters a..b of s are ch.
Count(s, a, b, ch) == Cardinality({k \in a..b : s[k] = ch})

\* A depth counter of the scanning loops when the loop is at position i, having
\* started from 0 at position a: +1 for every `up` and -1 for every `down` among
\* the characters a..i-1 it has passed.
Depth(s, a, i, up, down) == Count(s, a, i - 1, up) - Count(s, a, i - 1, down)

\* The while loop that looks for the closing bracket, started at the '[' (pos =
\* open, bracket_count = 0): the position of the first ']' after which
\* bracket_count is back to 0, or 0 when the text ends first (end_pos stays None).
FindClose(c, open) ==
    LET closes == {pos \in open..Len(c) :
                      c[pos] = "]" /\ Depth(c, open, pos, "[", "]") - 1 = 0}
    IN IF closes = {} THEN 0 ELSE Min(closes)

\* The split with only the bracket depth looked at.
IsItemEnd_NoParens(char, bracket_count, paren_count) ==
    char = "," /\ bracket_count = 0

\* elif char == ',' and bracket_count == 0 and paren_count == 0
IsItemEnd(char, bracket_count, paren_count) ==
    char = "," /\ bracket_count = 0 /\ paren_count = 0

\* The positions i of properties_content (which starts with '[' and ends with
\* ']'; i runs over the characters between the two) at which the splitting loop
\* ends an item.
ItemEnds(properties_content) ==
    {i \in 2..(Len(properties_content) - 1) :
        IsItemEnd(properties_content[i],
                  Depth(properties_content, 2, i, "[", "]"),
                  Depth(properties_content, 2, i, "(", ")"))}

\* properties_items from position a on: each item is current_item[:-1].strip()
\* at the comma that ends it; after the loop, current_item is appended when its
\* strip() is not empty.
RECURSIVE ItemsFrom(_, _)
ItemsFrom(properties_content, a) ==
    LET ends == {i \in ItemEnds(properties_content) : i >= a}
    IN IF ends = {}
       THEN LET current_item == SubSeq(properties_content, a, Len(properties_content) - 1)
            IN IF Strip(current_item) # <<>> THEN <<Strip(current_item)>> ELSE <<>>
       ELSE <<Strip(SubSeq(properties_content, a, Min(ends) - 1))>>
            \o ItemsFrom(properties_content, Min(ends) + 1)

PropertiesItems(properties_content) == ItemsFrom(properties_content, 2)

\* new_calls: one .add_property(item) per item whose strip() is not empty
RECURSIVE NewCalls(_)
NewCalls(items) ==
    IF items = <<>> THEN <<>>
    ELSE (IF Strip(Head(items)) # <<>>
          THEN L_add_property \o Strip(Head(items)) \o <<")">>
          ELSE <<>>) \o NewCalls(Tail(items))

\* The body of the loop over reversed(properties_matches) for one match.
FixProperties(c, m) ==
    LET open == MatchEnd(m) - 1             \* match.end() - 1: the '['
        close == FindClose(c, open)
    IN IF close = 0 THEN c
       ELSE ReplaceAt(c, m.start, close + 2,       \* end_pos = pos + 2: the "])"
                      NewCalls(PropertiesItems(SubSeq(c, open, close))))

RECURSIVE Rule4Loop(_, _, _)
Rule4Loop(c, ms, k) ==
    IF k = 0 THEN c ELSE Rule4Loop(FixProperties(c, ms[k]), ms, k - 1)

\* Rule 4: the matches are found once, in the text as it is before the loop.
Rule4(c) ==
    LET properties_matches == FindIter(P_properties, c, 1)
    IN Rule4Loop(c, properties_matches, Len(properties_matches))

-----------------------------------------------------------------------------
(* Rules 5 and 6: .build() after the two builder() calls                   *)

\* (?=\s*[,)]): after any whitespace comes ',' or ')'
LookAhead(s, k) ==
    LET j == RunEnd(Ws(0), s, k) IN j <= Len(s) /\ s[j] \in {",", ")"}

\* ([^.]*?)(?=\s*[,)]) from position e on: the first position k where the
\* lookahead holds with no '.' among e..k-1; 0 when there is none.
LazyEnd(s, e) ==
    LET ok == {k \in e..(Len(s) + 1) : LookAhead(s, k) /\ Count(s, e, k - 1, ".") = 0}
    IN IF ok = {} THEN 0 ELSE Min(ok)

\* Where r'NodePropertyKindOptions::builder\(\)([^.]*?)(?=\s*[,)])' ends when
\* matched at i, 0 when it does not match there.
KindBuilderEnd(s, i) ==
    IF StartsAt(s, i, L_kind_builder) THEN LazyEnd(s, i + Len(L_kind_builder)) ELSE 0

\* re.finditer for that pattern.
RECURSIVE FindKindBuilders(_, _)
FindKindBuilders(s, i) ==
    LET found == {j \in i..Len(s) : KindBuilderEnd(s, j) # 0}
    IN IF found = {} THEN <<>>
       ELSE LET j == Min(found)
                e == KindBuilderEnd(s, j)
            IN <<[start |-> j, ends |-> <<j + Len(L_kind_builder), e>>]>>
               \o FindKindBuilders(s, e)

\* Rule 5: lambda m: f'NodePropertyKindOptions::builder(){m.group(1)}.build()'
Rule5(c) ==
    LET ms == FindKindBuilders(c, 1)
    IN ReplaceMatches(c, ms,
           [k \in 1..Len(ms) |-> L_kind_builder \o Group(c, ms[k], 2) \o L_build], Len(ms))

\* The pattern without its parentheses: any mention of the builder matches.
P_builder_AnyMention == <<Lit(SubSeq(L_builder, 1, Len(L_builder) - 2))>>

\* builder_pattern = r'NodeProperty::builder\(\)'
P_builder == <<Lit(L_builder)>>

\* elif content[pos] in [',', ';', '}', ']'] and paren_count == 0: break
IsChainEnd(char, paren_count) ==
    char \in {",", ";", "}", "]"} /\ paren_count = 0

\* The while loop that looks for the end of the builder's call chain, started at
\* start_pos with paren_count = 0: the first position whose character ends the
\* chain, Len(c) + 1 when the loop runs off the text.  ('(' and ')' only count;
\* a '.' at depth 0 is passed over.)
ChainEnd(c, start_pos) ==
    Min({pos \in start_pos..(Len(c) + 1) :
            \/ pos = Len(c) + 1
            \/ IsChainEnd(c[pos], Depth(c, start_pos, pos, "(", ")"))})

\* The body of the loop over reversed(builder_matches) for one match.
FixBuilder(c, m) ==
    LET start_pos == MatchEnd(m)
        pos == ChainEnd(c, start_pos)
        chain_content == Slice(c, start_pos, pos)
    IN IF ~Contains(chain_content, L_build)
       THEN ReplaceAt(c, pos, pos, L_build)
       ELSE c

RECURSIVE Rule6Loop(_, _, _)
Rule6Loop(c, ms, k) ==
    IF k = 0 THEN c ELSE Rule6Loop(FixBuilder(c, ms[k]), ms, k - 1)

\* Rule 6: the matches are found once, in the text as it is before the loop.
Rule6(c) ==
    LET builder_matches == FindIter(P_builder, c, 1)
    IN Rule6Loop(c, builder_matches, Len(builder_matches))

\* The text fix_node_definition_file computes from the text it read.
Transform(c) == Rule8(Rule7(Rule6(Rule5(Rule4(Rule3(Rule2(Rule1(c))))))))

-----------------------------------------------------------------------------
(* Script A as a state machine: main's loop over rust_files, and            *)
(* fix_node_definition_file step by step (read, rules 1-8, write back).     *)

\* How many times the script is executed, one execution after the other.
MaxRuns == 2

NoCalls(fs) == [i \in 1..Len(fs) |-> <<>>]
NoOpens(fs) == [i \in 1..Len(fs) |-> 0]

\* Script B's variables while the model is about Script A.
IdleB ==
    /\ b_pc = "idle"
    /\ b_json = <<>>
    /\ b_key = <<>>
    /\ b_writable = TRUE
    /\ b_file = <<"absent">>
    /\ b_ret = "none"
    /\ b_err = "none"

\* The state when main starts its loop over the files fs, whose open() modes are pm.
InitA(fs, pm) ==
    /\ files = fs
    /\ perm = pm
    /\ run = 1
    /\ mpc = "loop"
    /\ idx = 1
    /\ fixed_count = 0
    /\ pc = "idle"
    /\ content = <<>>
    /\ original_content = <<>>
    /\ outcome = NoCalls(fs)
    /\ wopens = NoOpens(fs)
    /\ summary = -1
    /\ IdleB

\* CallFix without main's try/except: the exception of open() ends the loop and
\* the script.
CallFix_Abort ==
    /\ mpc = "loop"
    /\ pc = "idle"
    /\ idx <= Len(files)
    /\ IF perm[idx] = "noread"
       THEN /\ outcome' = [outcome EXCEPT ![idx] = Append(@, "raised")]
            /\ mpc' = "done"
            /\ UNCHANGED <<pc, content, original_content, idx>>
       ELSE /\ content' = files[idx]
            /\ original_content' = files[idx]
            /\ pc' = "r1"
            /\ UNCHANGED <<outcome, idx, mpc>>
    /\ UNCHANGED <<files, perm, run, fixed_count, wopens, summary, varsB>>

\* main calls fix_node_definition_file(file_path); the function opens the file
\* and reads it.  When open() raises, main's except clause prints the error and
\* the loop goes on with the next file.
CallFix ==
    /\ mpc = "loop"
    /\ pc = "idle"
    /\ idx <= Len(files)
    /\ IF perm[idx] = "noread"
       THEN /\ outcome' = [outcome EXCEPT ![idx] = Append(@, "raised")]
            /\ idx' = idx + 1
            /\ UNCHANGED <<pc, content, original_content>>
       ELSE /\ content' = files[idx]
            /\ original_content' = files[idx]
            /\ pc' = "r1"
            /\ UNCHANGED <<outcome, idx>>
    /\ UNCHANGED <<files, perm, run, mpc, fixed_count, wopens, summary, varsB>>

\* One rule of fix_node_definition_file: content = the rule's result.
RuleStep(from, to, new_content) ==
    /\ pc = from
    /\ content' = new_content
    /\ pc' = to
    /\ UNCHANGED <<files, perm, run, mpc, idx, fixed_count, original_content,
                   outcome, wopens, summary, varsB>>

ApplyRule1 == RuleStep("r1", "r2", Rule1(content))
ApplyRule2 == RuleStep("r2", "r3", Rule2(content))
ApplyRule3 == RuleStep("r3", "r4", Rule3(content))
ApplyRule4 == RuleStep("r4", "r5", Rule4(content))
ApplyRule5 == RuleStep("r5", "r6", Rule5(content))
ApplyRule6 == RuleStep("r6", "r7", Rule6(content))
ApplyRule7 == RuleStep("r7", "r8", Rule7(content))
ApplyRule8 == RuleStep("r8", "write", Rule8(content))

\* The file written back whatever the text.
MustWrite_Always(c, original) == TRUE

\* if content != original_content
MustWrite(c, original) == c # original

\* The end of fix_node_definition_file and main's use of its result: the file is
\* opened for writing and written only when the text changed (True, and main
\* counts the file); when open(file_path, 'w') raises, the file is left as it
\* was and main's except clause takes over; otherwise False.
WriteBack ==
    /\ pc = "write"
    /\ IF MustWrite(content, original_content)
       THEN IF perm[idx] = "nowrite"
            THEN /\ outcome' = [outcome EXCEPT ![idx] = Append(@, "raised")]
                 /\ UNCHANGED <<files, wopens, fixed_count>>
            ELSE /\ files' = [files EXCEPT ![idx] = content]
                 /\ wopens' = [wopens EXCEPT ![idx] = @ + 1]
                 /\ outcome' = [outcome EXCEPT ![idx] = Append(@, "True")]
                 /\ fixed_count' = fixed_count + 1
       ELSE /\ outcome' = [outcome EXCEPT ![idx] = Append(@, "False")]
            /\ UNCHANGED <<files, wopens, fixed_count>>
    /\ pc' = "idle"
    /\ idx' = idx + 1
    /\ UNCHANGED <<perm, run, mpc, content, original_content, summary, varsB>>

\* The loop is over: print(f"... {fixed_count} ...")
Summary ==
    /\ mpc = "loop"
    /\ pc = "idle"
    /\ idx > Len(files)
    /\ summary' = fixed_count
    /\ mpc' = "done"
    /\ UNCHANGED <<files, perm, run, idx, fixed_count, pc, content, original_content,
                   outcome, wopens, varsB>>

\* The script is executed again, on the files as the last execution left them.
Rerun ==
    /\ mpc = "done"
    /\ run < MaxRuns
    /\ run' = run + 1
    /\ mpc' = "loop"
    /\ idx' = 1
    /\ fixed_count' = 0
    /\ outcome' = NoCalls(files)
    /\ wopens' = NoOpens(files)
    /\ summary' = -1
    /\ UNCHANGED <<files, perm, pc, content, original_content, varsB>>

NextA ==
    \/ CallFix
    \/ ApplyRule1
    \/ ApplyRule2
    \/ ApplyRule3
    \/ ApplyRule4
    \/ ApplyRule5
    \/ ApplyRule6
    \/ ApplyRule7
    \/ ApplyRule8
    \/ WriteBack
    \/ Summary
    \/ Rerun

-----------------------------------------------------------------------------
(* Script B: json.loads, the data-URI regular expression, base64.b64decode *)
(* A byte is an integer in 0..255.                                         *)

L_data_image == <<"d", "a", "t", "a", ":", "i", "m", "a", "g", "e", "/">>
L_base64_comma == <<";", "b", "a", "s", "e", "6", "4", ",">>

\* \w of the regular expression, for ASCII text
WordChars ==
    {"a", "b", "c", "d", "e", "f", "g", "h", "i", "j", "k", "l", "m", "n", "o", "p",
    "q", "r", "s", "t", "u", "v", "w", "x", "y", "z", "A", "B", "C", "D", "E", "F",
    "G", "H", "I", "J", "K", "L", "M", "N", "O", "P", "Q", "R", "S", "T", "U", "V",
    "W", "X", "Y", "Z", "0", "1", "2", "3", "4", "5", "6", "7", "8", "9", "_"}

Digits == {"0", "1", "2", "3", "4", "5", "6", "7", "8", "9"}

\* The character at position i, "" past either end of the text.
At(s, i) == IF i >= 1 /\ i <= Len(s) THEN s[i] ELSE ""

SkipWs(s, i) == RunEnd(Ws(0), s, i)

JVal(t, v, members) == [t |-> t, v |-> v, members |-> members]
Parsed(end, val) == [ok |-> TRUE, end |-> end, val |-> val]
ParseFail == [ok |-> FALSE, end |-> 0, val |-> JVal("none", <<>>, <<>>)]

\* The escapes of a JSON string that the model's texts use, and what each
\* stands for (json's BACKSLASH table; the texts hold no \b, \f or \uXXXX).
EscapeChars == {"\"", "\\", "/", "n", "r", "t"}

Unescape(ch) ==
    IF ch = "n" THEN "\n" ELSE IF ch = "r" THEN "\r" ELSE IF ch = "t" THEN "\t" ELSE ch

\* json's scanstring from position i inside a string: chunks up to the next '"',
\* backslash or control character; the '"' ends the string, a backslash takes
\* the escape after it, a control character is an error (strict mode).
RECURSIVE ScanString(_, _, _)
ScanString(s, i, acc) ==
    LET stops == {j \in i..Len(s) : s[j] \in {"\"", "\\", "\t", "\n", "\r"}}
    IN IF stops = {} THEN ParseFail
       ELSE LET j == Min(stops)
                chunk == acc \o SubSeq(s, i, j - 1)
            IN IF s[j] = "\"" THEN Parsed(j + 1, JVal("str", chunk, <<>>))
               ELSE IF s[j] = "\\" /\ At(s, j + 1) \in EscapeChars
               THEN ScanString(s, j + 2, Append(chunk, Unescape(At(s, j + 1))))
               ELSE ParseFail

\* A JSON string starting at the '"' at position i.
ParseString(s, i) == ScanString(s, i + 1, <<>>)

DigitsEnd(s, i) == RunEnd([k |-> "run", s |-> <<>>, set |-> Digits, neg |-> FALSE, min |-> 0], s, i)

\* json's NUMBER_RE (-?(?:0|[1-9]\d*))(\.\d+)?([eE][-+]?\d+)? matched at i: the
\* position after the number, 0 when there is no number at i.
NumberEnd(s, i) ==
    LET a == IF At(s, i) = "-" THEN i + 1 ELSE i
        int == IF At(s, a) = "0" THEN a + 1
               ELSE IF At(s, a) \in Digits THEN DigitsEnd(s, a) ELSE 0
        frac == IF At(s, int) = "." /\ At(s, int + 1) \in Digits
                THEN DigitsEnd(s, int + 1) ELSE int
        b == IF At(s, frac + 1) \in {"+", "-"} THEN frac + 2 ELSE frac + 1
    IN IF int = 0 THEN 0
       ELSE IF At(s, frac) \in {"e", "E"} /\ At(s, b) \in Digits THEN DigitsEnd(s, b)
       ELSE frac

\* The words json accepts as values.
JsonWords == {<<"n", "u", "l", "l">>, <<"t", "r", "u", "e">>, <<"f", "a", "l", "s", "e">>, <<"N", "a", "N">>, <<"I", "n", "f", "i", "n", "i", "t", "y">>, <<"-", "I", "n", "f", "i", "n", "i", "t", "y">>}

WordAt(s, i) == {w \in JsonWords : StartsAt(s, i, w)}

\* json's scanner, one operator for its three mutually recursive parts:
\*   what = "value":    the value at position i: a string, an object, an array,
\*                      a number or a word;
\*   what = "members":  the members of an object from the key at position i on;
\*                      acc holds the pairs <<key, value>> read so far;
\*   what = "elements": the elements of an array from the value at position i on
\*                      (what they are does not matter to the script: indexing a
\*                      list with a key raises TypeError).
RECURSIVE ScanOnce(_, _, _, _)
ScanOnce(what, s, i, acc) ==
    IF what = "value"
    THEN IF At(s, i) = "\"" THEN ParseString(s, i)
         ELSE IF At(s, i) = "{"
         THEN LET j == SkipWs(s, i + 1)
              IN IF At(s, j) = "}" THEN Parsed(j + 1, JVal("obj", <<>>, <<>>))
                 ELSE ScanOnce("members", s, j, <<>>)
         ELSE IF At(s, i) = "["
         THEN LET j == SkipWs(s, i + 1)
              IN IF At(s, j) = "]" THEN Parsed(j + 1, JVal("arr", <<>>, <<>>))
                 ELSE ScanOnce("elements", s, j, <<>>)
         ELSE IF NumberEnd(s, i) # 0 THEN Parsed(NumberEnd(s, i), JVal("num", <<>>, <<>>))
         ELSE IF WordAt(s, i) # {}
         THEN Parsed(i + Len(CHOOSE w \in WordAt(s, i) : TRUE), JVal("word", <<>>, <<>>))
         ELSE ParseFail
    ELSE IF what = "members"
    THEN IF At(s, i) # "\"" THEN ParseFail
         ELSE LET key == ParseString(s, i)
              IN IF ~key.ok THEN ParseFail
                 ELSE LET colon == SkipWs(s, key.end)
                      IN IF At(s, colon) # ":" THEN ParseFail
                         ELSE LET v == ScanOnce("value", s, SkipWs(s, colon + 1), <<>>)
                              IN IF ~v.ok THEN ParseFail
                                 ELSE LET n == SkipWs(s, v.end)
                                          pairs == Append(acc, <<key.val.v, v.val>>)
                                      IN IF At(s, n) = "}"
                                         THEN Parsed(n + 1, JVal("obj", <<>>, pairs))
                                         ELSE IF At(s, n) = ","
                                         THEN ScanOnce("members", s, SkipWs(s, n + 1), pairs)
                                         ELSE ParseFail
    ELSE LET v == ScanOnce("value", s, i, <<>>)
         IN IF ~v.ok THEN ParseFail
            ELSE LET n == SkipWs(s, v.end)
                 IN IF At(s, n) = "]" THEN Parsed(n + 1, JVal("arr", <<>>, <<>>))
                    ELSE IF At(s, n) = "," THEN ScanOnce("elements", s, SkipWs(s, n + 1), <<>>)
                    ELSE ParseFail

ParseValue(s, i) == ScanOnce("value", s, i, <<>>)

\* The end of json.loads: only whitespace may follow the value v.
WholeText(s, v) == IF v.ok /\ SkipWs(s, v.end) = Len(s) + 1 THEN v ELSE ParseFail

\* json.loads(b64_json_string): one value between optional whitespace; ok is
\* FALSE where json.loads raises JSONDecodeError.
JsonLoads(s) == WholeText(s, ParseValue(s, SkipWs(s, 1)))

\* data[data_key] on a dict: the value of the last pair with that key.
Lookup(members, key) ==
    LET hits == {k \in 1..Len(members) : members[k][1] = key}
    IN IF hits = {} THEN JVal("none", <<>>, <<>>) ELSE members[Max(hits)][2]

\* r"^data:image/\w+;base64,"
P_data_uri ==
    <<Lit(L_data_image),
      [k |-> "run", s |-> <<>>, set |-> WordChars, neg |-> FALSE, min |-> 1],
      Lit(L_base64_comma)>>

\* re.sub(r"^data:image/\w+;base64,", "", base64_string): ^ matches at the start
\* of the string only.
StripDataUri(base64_string) ==
    LET m == MatchAt(P_data_uri, base64_string, 1)
    IN IF m = <<>> THEN base64_string ELSE From(base64_string, m[Len(m)])

\* The Base64 alphabet: the character at index v + 1 stands for the value v.
B64Alphabet ==
    <<"A", "B", "C", "D", "E", "F", "G", "H", "I", "J", "K", "L", "M", "N", "O", "P",
    "Q", "R", "S", "T", "U", "V", "W", "X", "Y", "Z", "a", "b", "c", "d", "e", "f",
    "g", "h", "i", "j", "k", "l", "m", "n", "o", "p", "q", "r", "s", "t", "u", "v",
    "w", "x", "y", "z", "0", "1", "2", "3", "4", "5", "6", "7", "8", "9", "+", "/">>

B64Chars == {B64Alphabet[i] : i \in 1..64}

B64Value(ch) == (CHOOSE i \in 1..64 : B64Alphabet[i] = ch) - 1

\* The characters of s that binascii.a2b_base64 takes as data, in order.
DataChars(s) == SelectSeq(s, LAMBDA ch : ch \in B64Chars)

\* Whether the decoding loop is handed the character at p as data (non-strict
\* mode: any other character except '=' is skipped).
IsData(s, p) == s[p] \in B64Chars

\* quad_pos when the loop is at position p: the data characters passed, mod 4.
QuadPos(s, p) == Cardinality({k \in 1..(p - 1) : IsData(s, k)}) % 4

\* pads after the '=' at position p: the '=' since the last data character
\* (a data character sets pads = 0; pads is only counted while quad_pos >= 2).
Pads(s, p) ==
    LET last == Max({0} \cup {k \in 1..(p - 1) : IsData(s, k)})
    IN Cardinality({k \in (last + 1)..p : s[k] = "="})

\* if (quad_pos >= 2 && quad_pos + ++pads >= 4) goto done;
PadEnds(s, p) ==
    s[p] = "=" /\ QuadPos(s, p) >= 2 /\ QuadPos(s, p) + Pads(s, p) >= 4

\* The bytes of the data characters d (their values v1 v2 v3 v4 per quad):
\*   (v1 << 2) | (v2 >> 4),  ((v2 & 0x0f) << 4) | (v3 >> 2),  ((v3 & 0x03) << 6) | v4
\* A quad cut short gives the bytes it completed.
RECURSIVE QuadBytes(_)
QuadBytes(d) ==
    IF Len(d) < 2 THEN <<>>
    ELSE LET v1 == B64Value(d[1])
             v2 == B64Value(d[2])
             b1 == <<v1 * 4 + v2 \div 16>>
         IN IF Len(d) = 2 THEN b1
            ELSE LET v3 == B64Value(d[3])
                     b2 == <<(v2 % 16) * 16 + v3 \div 4>>
                 IN IF Len(d) = 3 THEN b1 \o b2
                    ELSE b1 \o b2 \o <<(v3 % 4) * 64 + B64Value(d[4])>>
                         \o QuadBytes(SubSeq(d, 5, Len(d)))

\* Characters of the model's alphabet that are not ASCII.
NonAscii == {"é"}

\* A decoder that keeps whole quads only: the bytes of a padded last quad are
\* lost.
B64Decode_WholeQuads(s) ==
    [err |-> "none",
     bytes |-> QuadBytes(SubSeq(DataChars(s), 1, 4 * (Len(DataChars(s)) \div 4)))]

\* base64.b64decode(base64_string), validate=False: a str that is not ASCII
\* raises ValueError; the loop skips what is neither data nor '=' and stops at
\* the padding that ends a quad; data left in an open quad at the end of the
\* input raises binascii.Error.
B64Decode(s) ==
    IF \E k \in 1..Len(s) : s[k] \in NonAscii
    THEN [err |-> "ValueError", bytes |-> <<>>]
    ELSE LET ends == {p \in 1..Len(s) : PadEnds(s, p)}
         IN IF ends # {}
            THEN [err |-> "none", bytes |-> QuadBytes(DataChars(SubSeq(s, 1, Min(ends) - 1)))]
            ELSE IF Len(DataChars(s)) % 4 # 0
            THEN [err |-> "binascii.Error", bytes |-> <<>>]
            ELSE [err |-> "none", bytes |-> QuadBytes(DataChars(s))]

-----------------------------------------------------------------------------
(* Script B as a state machine: one call of base64_json_to_image.           *)

Failure(err) == [ret |-> "False", err |-> err, written |-> FALSE, bytes |-> <<>>]

\* The try block statement by statement, each exception going to the except
\* clause that catches it (each prints and falls through to `return False`).
\* TypeError (data is not a dict, or the value is not a str) and ValueError (a
\* str that is not ASCII) reach `except Exception`.

\* with open(output_path, "wb") as image_file: image_file.write(image_data)
WriteImage(image_data, writable) ==
    IF image_data.err = "ValueError" THEN Failure("Exception")
    ELSE IF image_data.err # "none" THEN Failure(image_data.err)
    ELSE IF ~writable THEN Failure("IOError")
    ELSE [ret |-> "True", err |-> "none", written |-> TRUE, bytes |-> image_data.bytes]

\* base64_string = re.sub(...); image_data = base64.b64decode(base64_string)
DecodeValue(base64_string, writable) ==
    IF base64_string.t = "none" THEN Failure("KeyError")
    ELSE IF base64_string.t # "str" THEN Failure("Exception")
    ELSE WriteImage(B64Decode(StripDataUri(base64_string.v)), writable)

\* base64_string = data[data_key]
GetValue(data, data_key, writable) ==
    IF ~data.ok THEN Failure("JSONDecodeError")
    ELSE IF data.val.t # "obj" THEN Failure("Exception")
    ELSE DecodeValue(Lookup(data.val.members, data_key), writable)

\* data = json.loads(b64_json_string), and the rest of the call.
CallResult(b64_json_string, data_key, writable) ==
    GetValue(JsonLoads(b64_json_string), data_key, writable)

\* The state before the call: the arguments, and no file at output_path yet.
InitB(json, key, writable) ==
    /\ b_pc = "ready"
    /\ b_json = json
    /\ b_key = key
    /\ b_writable = writable
    /\ b_file = <<"absent">>
    /\ b_ret = "none"
    /\ b_err = "none"
    /\ files = <<>>
    /\ perm = <<>>
    /\ run = 1
    /\ mpc = "done"
    /\ idx = 1
    /\ fixed_count = 0
    /\ pc = "idle"
    /\ content = <<>>
    /\ original_content = <<>>
    /\ outcome = <<>>
    /\ wopens = <<>>
    /\ summary = 0

\* The effect of a call whose result is r.
Returns(r) ==
    /\ b_ret' = r.ret
    /\ b_err' = r.err
    /\ b_file' = IF r.written THEN r.bytes ELSE b_file

\* base64_json_to_image(b_json, output_path, b_key)
Base64JsonToImage ==
    /\ b_pc = "ready"
    /\ Returns(CallResult(b_json, b_key, b_writable))
    /\ b_pc' = "done"
    /\ UNCHANGED <<b_json, b_key, b_writable, varsA>>

NextB == Base64JsonToImage

-----------------------------------------------------------------------------
(* The inputs the model is run on.  Texts are built from fragments of Rust  *)
(* source of the kind the script is pointed at.                            *)

MaxFiles == 2
MaxItems == 3
MaxFrags == 3
MaxBytes == 3

\* All sequences of at most n elements of S.
SeqsUpTo(S, n) == UNION {[1..k -> S] : k \in 0..n}

\* items joined by sep.
RECURSIVE Join(_, _)
Join(items, sep) ==
    IF items = <<>> THEN <<>>
    ELSE IF Len(items) = 1 THEN items[1]
    ELSE items[1] \o sep \o Join(Tail(items), sep)

\* The same call around each item, chained.
Calls(call, items) == Flatten([k \in 1..Len(items) |-> call \o items[k] \o <<")">>])

\* The files main finds: up to MaxFiles files, each with one of these texts and
\* one of the ways open() can behave on it.
MainTexts ==
    {<<"f", "n", " ", "m", "a", "i", "n", "(", ")", " ", "{", "}">>,
     <<".", "i", "n", "p", "u", "t", "s", "(", "[", "a", "]", ")", ".", "o", "u", "t", "p", "u", "t", "s", "(", "[", "b", "]", ")">>,
     <<"l", "e", "t", " ", "d", "e", "f", "i", "n", "i", "t", "i", "o", "n", " ", "=", " ", "b", "a", "s", "e", "?", ";">>,
     <<".", "p", "r", "o", "p", "e", "r", "t", "i", "e", "s", "(", "[", "A", ",", " ", "f", "(", "b", ",", " ", "c", ")", "]", ")">>}

Perms == {"rw", "noread", "nowrite"}

InitMain ==
    \E n \in 0..MaxFiles : \E fs \in [1..n -> MainTexts] : \E pm \in [1..n -> Perms] :
        InitA(fs, pm)

\* One readable, writable file with the text t.
InitFile(t) == InitA(<<t>>, <<"rw">>)

\* .properties([ ... ]) calls: the list items (balanced expressions, some with
\* nested commas), how the list is laid out, and what surrounds the call.
ItemSet ==
    {<<"A">>,
     <<"f", "(", "a", ",", " ", "b", ")">>,
     <<"[", "c", ",", " ", "(", "d", ",", " ", "e", ")", "]">>}

Layouts ==
    {[lead |-> <<>>, sep |-> <<",", " ">>, trail |-> <<>>],
     [lead |-> <<"\n", " ">>, sep |-> <<",", "\n", " ">>, trail |-> <<",", "\n">>]}

PropPre == {<<>>, <<"d">>}

\* What follows the call, and what that becomes: nothing, a statement end, or
\* a second .properties call.
PropPost ==
    {[text |-> <<>>, want |-> <<>>],
     [text |-> <<";">>, want |-> <<";">>],
     [text |-> <<".", "p", "r", "o", "p", "e", "r", "t", "i", "e", "s", "(", "[", "B", "]", ")">>, want |-> <<".", "a", "d", "d", "_", "p", "r", "o", "p", "e", "r", "t", "y", "(", "B", ")">>]}

PropText(pre, items, lay, post) ==
    pre \o L_properties
        \o (IF items = <<>> THEN <<>> ELSE lay.lead \o Join(items, lay.sep) \o lay.trail)
        \o <<"]", ")">> \o post.text

\* Each text of the family with the items it was built from and the text the
\* rewrite is to produce: one .add_property(item) per item, in order.
PropCases ==
    {[text |-> PropText(pre, items, lay, post),
      items |-> items,
      want |-> pre \o Calls(L_add_property, items) \o post.want] :
        pre \in PropPre, items \in SeqsUpTo(ItemSet, MaxItems), lay \in Layouts,
        post \in PropPost}

InitProps == \E k \in PropCases : InitFile(k.text)

\* .inputs([ ... ]) and .outputs([ ... ]) calls with one to MaxItems items.
ListItemSet ==
    {<<"a">>,
     <<"b", ".", "c", "(", ")">>,
     <<"f", "(", "x", ")">>}

ListCalls ==
    {[old |-> L_inputs, new |-> L_add_input], [old |-> L_outputs, new |-> L_add_output]}

ListCases ==
    {[text |-> pre \o call.old \o Join(items, <<",", " ">>) \o <<"]", ")">>,
      items |-> items,
      want |-> pre \o Calls(call.new, items)] :
        pre \in PropPre, call \in ListCalls,
        items \in SeqsUpTo(ListItemSet, MaxItems) \ {<<>>}}

InitLists == \E k \in ListCases : InitFile(k.text)

\* Builder chains: the builder, the calls chained on it, the call it may be an
\* argument of, and what follows.
BuilderWraps ==
    {[open |-> <<>>, close |-> <<>>],
     [open |-> <<"x", "(">>, close |-> <<")">>],
     [open |-> L_add_property, close |-> <<")">>]}

BuilderChains ==
    {<<>>,
     <<".", "n", "a", "m", "e", "(", "\"", "x", "\"", ")">>,
     <<".", "n", "a", "m", "e", "(", "\"", "x", "\"", ")", ".", "b", "u", "i", "l", "d", "(", ")">>,
     <<".", "a", "(", "b", ",", " ", "c", ")">>}

BuilderTails == {<<>>, <<",", " ", "y">>, <<";">>}

\* Each text with the text in which the chain ends with .build(): added at the
\* end of the chain when the chain has none.
BuilderCases ==
    {[text |-> w.open \o b \o ch \o w.close \o tl,
      want |-> w.open \o b \o ch \o (IF Contains(ch, L_build) THEN <<>> ELSE L_build)
                      \o w.close \o tl] :
        w \in BuilderWraps, b \in {L_builder, L_kind_builder}, ch \in BuilderChains,
        tl \in BuilderTails}

InitBuilder == \E k \in BuilderCases : InitFile(k.text)

\* Texts of up to MaxFrags fragments.
FragTexts(frags) == {Flatten(fs) : fs \in SeqsUpTo(frags, MaxFrags)}

\* Fragments that hold the targets of the rules, whole and in pieces.
TargetFrags ==
    {<<".", "v", "e", "r">>,
     <<".", "v", "e", "r", "s", "i", "o", "n", "(", "x", ")">>,
     <<"s", "i", "o", "n", "(", "y", ")">>,
     <<".", "i", "n", "p", "u", "t", "s", "(", "[", "a", "]", ")">>,
     <<"N", "o", "d", "e", "P", "r", "o", "p", "e", "r", "t", "y", ":", ":", "b", "u", "i", "l", "d", "e", "r", "(", ")">>,
     <<";">>,
     <<"l", "e", "t", " ", "d", "e", "f", "i", "n", "i", "t", "i", "o", "n", " ", "=", " ", "b", "a", "s", "e", "?", ";">>}

InitTargets == \E t \in FragTexts(TargetFrags) : InitFile(t)

\* Fragments that come close to the targets of the rules; some concatenations
\* of them are targets.
NearFrags ==
    {<<".", "v", "e", "r", "s", "i", "o", "n">>,
     <<".", "i", "n", "p", "u", "t", "s", "(">>,
     <<"[", "a", "]", ")">>,
     <<"N", "o", "d", "e", "P", "r", "o", "p", "e", "r", "t", "y", ":", ":", "b", "u", "i", "l", "d", "e", "r">>,
     <<"(", ")">>,
     <<"l", "e", "t", " ", "d", "e", "f", "i", "n", "i", "t", "i", "o", "n">>,
     <<" ", "=", " ", "b", "a", "s", "e", "?", ";">>,
     <<"N", "o", "d", "e", "D", "e", "f", "i", "n", "i", "t", "i", "o", "n", ":", ":", "n", "e", "w", "(", "\"", "a", "\"">>,
     <<",", " ", "\"", "b", "\"", ")">>}

InitNear == \E t \in FragTexts(NearFrags) : InitFile(t)

SpecMain == InitMain /\ [][NextA]_vars
SpecProps == InitProps /\ [][NextA]_vars
SpecLists == InitLists /\ [][NextA]_vars
SpecBuilder == InitBuilder /\ [][NextA]_vars
SpecTargets == InitTargets /\ [][NextA]_vars
SpecNear == InitNear /\ [][NextA]_vars

-----------------------------------------------------------------------------
(* The inputs of base64_json_to_image.                                     *)

\* The standard Base64 encoding of the bytes D: three bytes to four characters,
\* the last group padded with '='.
RECURSIVE B64Encode(_)
B64Encode(D) ==
    IF D = <<>> THEN <<>>
    ELSE LET b1 == D[1]
             b2 == IF Len(D) >= 2 THEN D[2] ELSE 0
             b3 == IF Len(D) >= 3 THEN D[3] ELSE 0
         IN <<B64Alphabet[b1 \div 4 + 1],
              B64Alphabet[(b1 % 4) * 16 + b2 \div 16 + 1],
              IF Len(D) >= 2 THEN B64Alphabet[(b2 % 16) * 4 + b3 \div 64 + 1] ELSE "=",
              IF Len(D) >= 3 THEN B64Alphabet[(b3 % 64) + 1] ELSE "=">>
            \o B64Encode(SubSeq(D, 4, Len(D)))

ByteSet == {0, 77, 251, 255}

ByteSeqs == SeqsUpTo(ByteSet, MaxBytes)

K_b64_json == <<"b", "6", "4", "_", "j", "s", "o", "n">>
K_image == <<"i", "m", "a", "g", "e">>

\* The JSON text {"key": "value"}.
JsonObject(key, value) ==
    <<"{", "\"">> \o key \o <<"\"", ":", " ", "\"">> \o value \o <<"\"", "}">>

\* {"b64_json": "<Base64 of D>"} with the bytes D it was built from.
RoundTripCases ==
    {[text |-> JsonObject(K_b64_json, B64Encode(D)), bytes |-> D] : D \in ByteSeqs}

\* Image subtypes of a data URI.
Subtypes ==
    {<<"p", "n", "g">>,
     <<"j", "p", "e", "g">>,
     <<"s", "v", "g", "+", "x", "m", "l">>,
     <<"x", "-", "i", "c", "o", "n">>}

\* {"b64_json": "data:image/<subtype>;base64,<Base64 of D>"}
UriCases ==
    {[text |-> JsonObject(K_b64_json, L_data_image \o st \o L_base64_comma \o B64Encode(D)),
      subtype |-> st, bytes |-> D] : st \in Subtypes, D \in ByteSeqs}

\* Texts that are not JSON.
NotJsonTexts ==
    {<<>>,
     <<"n", "o", "p", "e">>,
     <<"{", "\"", "b", "6", "4", "_", "j", "s", "o", "n", "\"", ":", " ", "\"", "A", "A", "A", "A", "\"">>,
     <<"{", "b", "6", "4", "_", "j", "s", "o", "n", ":", " ", "\"", "A", "A", "A", "A", "\"", "}">>,
     <<"{", "\"", "b", "6", "4", "_", "j", "s", "o", "n", "\"", ":", " ", "\"", "A", "A", "A", "A", "\"", ",", "}">>}

\* JSON objects without the key b64_json.
NoKeyTexts ==
    {<<"{", "}">>,
     <<"{", "\"", "i", "m", "a", "g", "e", "\"", ":", " ", "\"", "A", "A", "A", "A", "\"", "}">>,
     <<"{", "\"", "d", "a", "t", "a", "\"", ":", " ", "{", "\"", "b", "6", "4", "_", "j", "s", "o", "n", "\"", ":", " ", "\"", "A", "A", "A", "A", "\"", "}", "}">>}

\* Strings that are not Base64: wrong padding, padding inside the data,
\* characters outside the alphabet.
BadB64Values ==
    {<<"A", "A", "A">>,
     <<"A">>,
     <<"A", "A", "=", "A">>,
     <<"A", "A", "A", "A", "!">>,
     <<"A", "A", "-", "_">>,
     <<"A", "Q", "*", "I", "D">>}

BadB64Texts == {JsonObject(K_b64_json, v) : v \in BadB64Values}

\* JSON that is no object, or holds no string under the key.
OtherTexts ==
    {<<"[", "1", "]">>,
     <<"\"", "A", "A", "A", "A", "\"">>,
     <<"{", "\"", "b", "6", "4", "_", "j", "s", "o", "n", "\"", ":", " ", "5", "}">>,
     <<"{", "\"", "b", "6", "4", "_", "j", "s", "o", "n", "\"", ":", " ", "n", "u", "l", "l", "}">>}

BTexts ==
    {k.text : k \in RoundTripCases} \cup {k.text : k \in UriCases} \cup NotJsonTexts
        \cup NoKeyTexts \cup BadB64Texts \cup OtherTexts

InitBCall ==
    \E t \in BTexts : \E key \in {K_b64_json, K_image} : \E w \in BOOLEAN : InitB(t, key, w)

SpecB == InitBCall /\ [][NextB]_vars

\* The whole model: either script, on any of its inputs.
Init ==
    \/ InitMain
    \/ InitProps
    \/ InitLists
    \/ InitBuilder
    \/ InitTargets
    \/ InitNear
    \/ InitBCall

Next == NextA \/ NextB

Spec == Init /\ [][Next]_vars

-----------------------------------------------------------------------------
(* Properties of main and of the write-back (SpecMain)                     *)

Last(q) == q[Len(q)]

\* C8: fix_node_definition_file writes the file if and only if the final text
\* differs from the text it read.  After a call on a readable, writable file:
\* when the texts differ, the file holds exactly the final text, it was opened
\* for writing once and the call returned True; when they are equal, the file
\* was not opened for writing, holds what it held and the call returned False.
C8_WriteIffChanged ==
    (pc = "idle" /\ idx > 1 /\ perm[idx - 1] = "rw") =>
        IF content # original_content
        THEN /\ files[idx - 1] = content
             /\ wopens[idx - 1] = 1
             /\ Last(outcome[idx - 1]) = "True"
        ELSE /\ files[idx - 1] = original_content
             /\ wopens[idx - 1] = 0
             /\ Last(outcome[idx - 1]) = "False"

\* Both cases in one run: the first file was changed and written, the second
\* was left alone.
C8_Witness ==
    /\ pc = "idle"
    /\ idx = 3
    /\ perm = <<"rw", "rw">>
    /\ outcome = <<<<"True">>, <<"False">>>>
    /\ wopens = <<1, 0>>
    /\ content = original_content
    /\ files[1] # files[2]

\* When the summary is printed every file has been processed exactly once, and
\* the count is the number of files whose call returned True.
BatchDone ==
    mpc = "done" =>
        /\ \A i \in DOMAIN files : Len(outcome[i]) = 1
        /\ summary = Cardinality({i \in DOMAIN files : outcome[i] = <<"True">>})

\* A step changes no file but the one being processed, and that one only in
\* the write-back.
OnlyOwnFile ==
    files' # files =>
        /\ pc = "write"
        /\ \A i \in DOMAIN files : i # idx => files'[i] = files[i]

\* While main is in its loop some step can be taken: the next file is called,
\* the call in progress goes on, or the summary is printed.
CanStep ==
    mpc = "loop" =>
        \/ pc = "idle" /\ idx <= Len(files)
        \/ pc \in {"r1", "r2", "r3", "r4", "r5", "r6", "r7", "r8", "write"}
        \/ pc = "idle" /\ idx > Len(files)

\* The steps of a call that are still to come, by its position.
CallStepsLeft ==
    [p \in {"idle", "r1", "r2", "r3", "r4", "r5", "r6", "r7", "r8", "write"} |->
        IF p = "idle" THEN 10
        ELSE IF p = "write" THEN 1
        ELSE 10 - (CHOOSE n \in 1..8 : p = <<"r1", "r2", "r3", "r4", "r5", "r6", "r7", "r8">>[n])]

\* A bound on the steps from here to the summary; 0 once it is printed.
StepsLeft ==
    IF mpc = "done" THEN 0
    ELSE (Len(files) + 1 - idx) * 11 + CallStepsLeft[pc]

\* Every step of the loop brings the summary nearer.
Progress == mpc = "loop" => StepsLeft' < StepsLeft /\ StepsLeft' >= 0

\* C7: whatever files raise, main processes every file exactly once, reaches
\* the summary (it can always take a step, and every step brings the summary
\* nearer), leaves every file to its own processing, and prints the number of
\* files for which fix_node_definition_file returned True.
C7_BatchSurvivesExceptions ==
    /\ []BatchDone
    /\ []CanStep
    /\ [][OnlyOwnFile /\ Progress]_vars

\* The first file cannot be read, the second is fixed and counted.
C7_Witness ==
    /\ mpc = "done"
    /\ Len(files) = 2
    /\ outcome = <<<<"raised">>, <<"True">>>>
    /\ summary = 1

-----------------------------------------------------------------------------
(* Properties of the rules (SpecProps, SpecLists, SpecBuilder,             *)
(* SpecTargets, SpecNear)                                                  *)

\* C1: every .properties([A, B, C]) whose items are separated by top-level
\* commas is replaced by exactly .add_property(A).add_property(B)
\* .add_property(C): one call per item, in order, never split at a comma nested
\* in brackets or parentheses, with no empty call and nothing left of the list;
\* the text around the call stays.  (pc = "r5": rule 4 has just run.)
C1_PropertiesSplitAtTopLevel ==
    \A k \in PropCases :
        (pc = "r5" /\ original_content = k.text) => content = k.want

\* Three items, two of them with nested commas, laid out over several lines
\* with a trailing comma.
C1_Witness ==
    /\ pc = "r5"
    /\ original_content = <<"d", ".", "p", "r", "o", "p", "e", "r", "t", "i", "e", "s", "(", "[", "\n", " ", "f", "(", "a", ",", " ", "b", ")", ",", "\n", " ", "[", "c", ",", " ", "(", "d", ",", " ", "e", ")", "]", ",", "\n", " ", "A", ",", "\n", "]", ")", ";">>
    /\ content = <<"d", ".", "a", "d", "d", "_", "p", "r", "o", "p", "e", "r", "t", "y", "(", "f", "(", "a", ",", " ", "b", ")", ")", ".", "a", "d", "d", "_", "p", "r", "o", "p", "e", "r", "t", "y", "(", "[", "c", ",", " ", "(", "d", ",", " ", "e", ")", "]", ")", ".", "a", "d", "d", "_", "p", "r", "o", "p", "e", "r", "t", "y", "(", "A", ")", ";">>

\* C9: rules 2 and 3 rewrite .inputs([I1, ..., In]) into n single-argument calls
\* .add_input(I1)....add_input(In), and .outputs([...]) into .add_output calls
\* likewise: one call per item of the list.  (pc = "r4": rules 2 and 3 have
\* just run.)
C9_OneCallPerListItem ==
    \A k \in ListCases :
        (pc = "r4" /\ original_content = k.text) => content = k.want

\* A list of one item becomes one call.
C9_Witness ==
    /\ pc = "r4"
    /\ original_content = <<"d", ".", "o", "u", "t", "p", "u", "t", "s", "(", "[", "b", ".", "c", "(", ")", "]", ")">>
    /\ content = <<"d", ".", "a", "d", "d", "_", "o", "u", "t", "p", "u", "t", "(", "b", ".", "c", "(", ")", ")">>

\* C10: after rules 5 and 6 every NodePropertyKindOptions::builder() and every
\* NodeProperty::builder() is followed by .build() within its own call chain:
\* nothing is added to a chain that has one, and a chain that has none gets it
\* at its end, also when the chain has intermediate calls and when the builder
\* is an argument of an enclosing call.  (pc = "r7": rules 5 and 6 have just
\* run.)
C10_BuildEndsOwnChain ==
    \A k \in BuilderCases :
        (pc = "r7" /\ original_content = k.text) => content = k.want

\* A chain with an intermediate call that ends at a ';' gets its .build().
C10_Witness ==
    /\ pc = "r7"
    /\ original_content = <<"N", "o", "d", "e", "P", "r", "o", "p", "e", "r", "t", "y", ":", ":", "b", "u", "i", "l", "d", "e", "r", "(", ")", ".", "n", "a", "m", "e", "(", "\"", "x", "\"", ")", ";">>
    /\ content = <<"N", "o", "d", "e", "P", "r", "o", "p", "e", "r", "t", "y", ":", ":", "b", "u", "i", "l", "d", "e", "r", "(", ")", ".", "n", "a", "m", "e", "(", "\"", "x", "\"", ")", ".", "b", "u", "i", "l", "d", "(", ")", ";">>

\* C2: the transformation is idempotent.  A second execution finds nothing to
\* change (the text stays as read, nothing is written, the call returns False),
\* and each rule, applied again to what it has just produced, leaves it as it is.
C2_SecondPassChangesNothing ==
    /\ run = 2 =>
        /\ content = original_content
        /\ \A i \in DOMAIN files : wopens[i] = 0 /\ outcome[i] # <<"True">>
    /\ pc = "r2" => Rule1(content) = content
    /\ pc = "r3" => Rule2(content) = content
    /\ pc = "r4" => Rule3(content) = content
    /\ pc = "r5" => Rule4(content) = content
    /\ pc = "r6" => Rule5(content) = content
    /\ pc = "r7" => Rule6(content) = content
    /\ pc = "r8" => Rule7(content) = content
    /\ pc = "write" => Rule8(content) = content

\* A text the first execution changed and the second leaves alone.
C2_Witness ==
    /\ run = 2
    /\ mpc = "done"
    /\ outcome = <<<<"False">>>>
    /\ files = <<<<".", "a", "d", "d", "_", "i", "n", "p", "u", "t", "(", "a", ")", ";", "l", "e", "t", " ", "d", "e", "f", "i", "n", "i", "t", "i", "o", "n", " ", "=", " ", "b", "a", "s", "e", ";">>>>

\* The literal targets of rules 1 to 6, and the texts rules 7 and 8 match.
NoTarget(t) ==
    /\ ~Contains(t, L_version)
    /\ ~Contains(t, L_inputs)
    /\ ~Contains(t, L_outputs)
    /\ ~Contains(t, L_properties)
    /\ ~Contains(t, L_kind_builder)
    /\ ~Contains(t, L_builder)
    /\ FindIter(P_base, t, 1) = <<>>
    /\ FindIter(P_new, t, 1) = <<>>

\* C3: on a text with no occurrence of any targeted pattern the function
\* computes a final text equal to the input (no rule changes it), does not
\* write the file and returns False.
C3_NoTargetNoChange ==
    NoTarget(original_content) =>
        /\ content = original_content
        /\ (pc = "idle" /\ idx = 2) =>
               /\ files[1] = original_content
               /\ wopens[1] = 0
               /\ outcome[1] = <<"False">>

\* A text that comes close to three targets and holds none.
C3_Witness ==
    /\ pc = "idle"
    /\ idx = 2
    /\ run = 1
    /\ original_content = <<".", "v", "e", "r", "s", "i", "o", "n", ".", "i", "n", "p", "u", "t", "s", "(", "N", "o", "d", "e", "P", "r", "o", "p", "e", "r", "t", "y", ":", ":", "b", "u", "i", "l", "d", "e", "r">>
    /\ files[1] = original_content
    /\ outcome[1] = <<"False">>

-----------------------------------------------------------------------------
(* Properties of base64_json_to_image (SpecB)                              *)

\* C4: round trip.  For every byte sequence D, the call on the JSON text
\* {"b64_json": "<standard Base64 of D>"} with the key b64_json returns True
\* and leaves exactly D in the file at output_path (which can be written).
C4_RoundTrip ==
    \A k \in RoundTripCases :
        (b_pc = "done" /\ b_json = k.text /\ b_key = K_b64_json /\ b_writable) =>
            b_ret = "True" /\ b_file = k.bytes

\* Two bytes, whose encoding uses '+' and '/' and is padded, have come back.
C4_Witness ==
    /\ b_pc = "done"
    /\ b_ret = "True"
    /\ b_key = K_b64_json
    /\ b_json = JsonObject(K_b64_json, <<"+", "/", "8", "=">>)
    /\ b_file = <<251, 255>>

\* C5: the call returns False, and writes nothing, when the text is not JSON,
\* when the JSON has no value under the requested key, and when the value under
\* the key is not valid Base64 (wrong padding, or characters outside the Base64
\* alphabet).
C5_FailuresReturnFalse ==
    b_pc = "done" =>
        /\ b_json \in NotJsonTexts => b_ret = "False" /\ b_file = <<"absent">>
        /\ (b_json \in NoKeyTexts /\ b_key = K_b64_json) =>
               b_ret = "False" /\ b_file = <<"absent">>
        /\ (b_json \in BadB64Texts /\ b_key = K_b64_json) =>
               b_ret = "False" /\ b_file = <<"absent">>

\* A value with wrong padding is refused.
C5_Witness ==
    /\ b_pc = "done"
    /\ b_json = JsonObject(K_b64_json, <<"A", "A", "A">>)
    /\ b_key = K_b64_json
    /\ b_ret = "False"
    /\ b_err = "binascii.Error"

\* C6: a value data:image/<subtype>;base64,<P> loses exactly that prefix: the
\* call decodes P, writes the bytes P stands for and returns True, whatever the
\* subtype (png, jpeg, svg+xml, x-icon).
C6_DataUriPrefixStripped ==
    \A k \in UriCases :
        (b_pc = "done" /\ b_json = k.text /\ b_key = K_b64_json /\ b_writable) =>
            b_ret = "True" /\ b_file = k.bytes

\* With the subtype png the prefix is removed and the payload decoded.
C6_Witness ==
    /\ b_pc = "done"
    /\ b_json = JsonObject(K_b64_json, L_data_image \o <<"p", "n", "g">> \o L_base64_comma
                                          \o <<"A", "P", "8", "=">>)
    /\ b_ret = "True"
    /\ b_file = <<0, 255>>

====
